---- MODULE Spec2Model ----
(***************************************************************************)
(* Single-precision pow (ARM__powf, src/math/e_powf.c).                    *)
(*                                                                         *)
(* A binary32 value is identified with its IEEE-754 bit pattern (asuint    *)
(* and asfloat are bit-preserving casts).  A 32-bit word is the pair       *)
(* <<hi, lo>> of its two 16-bit halves, so that all uint32_t arithmetic    *)
(* is done modulo 2^32 without leaving the range of the model checker's    *)
(* integers.  A binary64 pattern is the record [s, hi, mid, lo] of its     *)
(* sign bit, bits 62..47, bits 46..24 and bits 23..0.                      *)
(***************************************************************************)
EXTENDS Integers, Sequences, FiniteSets, TLC

VARIABLES x, y, WANT_ERRNO, WANT_ERRNO_UFLOW, pc, ix, sign_bias, yint,
          i, iz, k, ylogx, ki, ttop, ret, result

vars == <<x, y, WANT_ERRNO, WANT_ERRNO_UFLOW, pc, ix, sign_bias, yint,
          i, iz, k, ylogx, ki, ttop, ret, result>>

-----------------------------------------------------------------------------
(* uint32_t arithmetic on <<hi, lo>>.                                      *)

RECURSIVE Doubled(_)
Doubled(n) == IF n = 0 THEN 1 ELSE 2 * Doubled(n - 1)

Pow2Table == [n \in 0 .. 30 |-> Doubled(n)]

\* 2^n, 0 <= n <= 30
Pow2(n) == Pow2Table[n]

RECURSIVE And16(_, _)
And16(a, b) ==
  IF a = 0 \/ b = 0 THEN 0
  ELSE (a % 2) * (b % 2) + 2 * And16(a \div 2, b \div 2)

W(h, l) == <<h, l>>

Add32(a, b) ==
  LET lo == a[2] + b[2]
      hi == a[1] + b[1] + (lo \div 65536)
  IN  <<hi % 65536, lo % 65536>>

Sub32(a, b) ==
  LET lo == a[2] - b[2]
      hi == a[1] - b[1] - (IF lo < 0 THEN 1 ELSE 0)
  IN  <<hi % 65536, lo % 65536>>

Twice(a) == Add32(a, a)

And32(a, b) == <<And16(a[1], b[1]), And16(a[2], b[2])>>

Lt32(a, b) == a[1] < b[1] \/ (a[1] = b[1] /\ a[2] < b[2])

Ge32(a, b) == ~Lt32(a, b)

Gt32(a, b) == Lt32(b, a)

\* 1 << n as a 32-bit word, 0 <= n <= 31
Shl1(n) == IF n < 16 THEN <<0, Pow2(n)>> ELSE <<Pow2(n - 16), 0>>

\* a >> n (logical), 0 <= n <= 31
Shr32(a, n) ==
  IF n >= 16 THEN <<0, a[1] \div Pow2(n - 16)>>
  ELSE <<a[1] \div Pow2(n),
         (a[1] % Pow2(n)) * Pow2(16 - n) + (a[2] \div Pow2(n))>>

\* (int32_t) a >> n (arithmetic), 7 <= n <= 31, as a mathematical integer
AShr32(a, n) ==
  LET shi == IF a[1] >= 32768 THEN a[1] - 65536 ELSE a[1]
  IN  IF n >= 16 THEN shi \div Pow2(n - 16)
      ELSE shi * Pow2(16 - n) + (a[2] \div Pow2(n))

Zero32 == <<0, 0>>
One32 == <<0, 1>>

-----------------------------------------------------------------------------
(* binary32 fields and values.                                             *)

SignBit(w) == w[1] \div 32768
ExpField(w) == (w[1] \div 128) % 256
Mantissa(w) == (w[1] % 128) * 65536 + w[2]
MkFloat(s, e, m) == <<s * 32768 + e * 128 + (m \div 65536), m % 65536>>

IsNaN(w) == ExpField(w) = 255 /\ Mantissa(w) # 0
IsInf(w) == ExpField(w) = 255 /\ Mantissa(w) = 0
IsZero(w) == ExpField(w) = 0 /\ Mantissa(w) = 0
IsFinite(w) == ExpField(w) # 255
IsSubnormal(w) == ExpField(w) = 0 /\ Mantissa(w) # 0

-----------------------------------------------------------------------------
(* Build configuration (math_config.h) and the constants of e_powf.c.       *)

POWF_LOG2_TABLE_BITS == 4
POWF_SCALE_BITS == 0
EXP2F_TABLE_BITS == 5

N_log2 == Pow2(POWF_LOG2_TABLE_BITS)
N_exp2 == Pow2(EXP2F_TABLE_BITS)

\* #define OFF 0x3f330000
OFF == W(16179, 0)

\* the bias one bit short of the sign bit
SIGN_BIAS_OneBitShort == Pow2(EXP2F_TABLE_BITS + 10)

\* #define SIGN_BIAS (1 << (EXP2F_TABLE_BITS + 11))
SIGN_BIAS == Pow2(EXP2F_TABLE_BITS + 11)

PlusOne == W(16256, 0)      \* 0x3f800000, 1.0f
PlusZero == W(0, 0)         \* 0x00000000, 0.0f
PlusInf == W(32640, 0)      \* 0x7f800000
MinNormal == W(128, 0)      \* 0x00800000
SignMask == W(32768, 0)     \* 0x80000000
AbsMask == W(32767, 65535)  \* 0x7fffffff
TopMask == W(65408, 0)      \* 0xff800000
QuietBit == W(64, 0)        \* 0x00400000

-----------------------------------------------------------------------------
(* Classification helpers.                                                 *)

\* the bound e > 0x7f + 23 taken as e >= 0x7f + 23
checkint_EarlyEven(iy) ==
  LET e == And32(Shr32(iy, 23), W(0, 255))[2]
  IN  IF e < 127 THEN 0
      ELSE IF e >= 127 + 23 THEN 2
      ELSE IF And32(iy, Sub32(Shl1(127 + 23 - e), One32)) # Zero32 THEN 0
      ELSE IF And32(iy, Shl1(127 + 23 - e)) # Zero32 THEN 1
      ELSE 2

\* static inline int checkint (uint32_t iy)
checkint(iy) ==
  LET e == And32(Shr32(iy, 23), W(0, 255))[2]
  IN  IF e < 127 THEN 0
      ELSE IF e > 127 + 23 THEN 2
      ELSE IF And32(iy, Sub32(Shl1(127 + 23 - e), One32)) # Zero32 THEN 0
      ELSE IF And32(iy, Shl1(127 + 23 - e)) # Zero32 THEN 1
      ELSE 2

\* the comparison without the two decrements, which lets zero through
zeroinfnan_MissesZero(w) == Ge32(Twice(w), Twice(PlusInf))

\* static inline int zeroinfnan (uint32_t ix)
zeroinfnan(w) ==
  Ge32(Sub32(Twice(w), One32), Sub32(Twice(PlusInf), One32))

\* issignalingf_inline: a NaN whose quiet bit is clear
issignalingf_inline(w) == IsNaN(w) /\ And32(w, QuietBit) = Zero32

-----------------------------------------------------------------------------
(* binary32 arithmetic on the operands the dispatcher applies it to.       *)

Quiet(w) == IF And32(w, QuietBit) = Zero32 THEN Add32(w, QuietBit) ELSE w

Negate(w) == IF SignBit(w) = 1 THEN Sub32(w, SignMask) ELSE Add32(w, SignMask)

\* x + y with a NaN operand: the quieted NaN of either NaN operand
\* (which of two NaN operands is propagated is the target's choice)
FAddNaN(a, b) ==
  (IF IsNaN(a) THEN {Quiet(a)} ELSE {}) \cup (IF IsNaN(b) THEN {Quiet(b)} ELSE {})

\* x * x for x zero, infinite or NaN
FSquare(w) ==
  IF IsNaN(w) THEN Quiet(w)
  ELSE IF IsInf(w) THEN PlusInf
  ELSE PlusZero

\* 1 / x2 for x2 zero, infinite or NaN
FRecip(w) ==
  IF IsNaN(w) THEN Quiet(w)
  ELSE IF IsInf(w) THEN MkFloat(SignBit(w), 0, 0)
  ELSE MkFloat(SignBit(w), 255, 0)

RECURSIVE TopBit(_)
TopBit(m) == IF m <= 1 THEN 0 ELSE 1 + TopBit(m \div 2)

\* x * 0x1p23f: exact for every finite x below 2^104
FMul2p23(w) ==
  IF ~IsFinite(w) \/ IsZero(w) THEN w
  ELSE IF ExpField(w) = 0
       THEN LET p == TopBit(Mantissa(w))
            IN  MkFloat(SignBit(w), p + 1,
                        (Mantissa(w) * Pow2(23 - p)) % 8388608)
       ELSE IF ExpField(w) + 23 >= 255 THEN MkFloat(SignBit(w), 255, 0)
       ELSE MkFloat(SignBit(w), ExpField(w) + 23, Mantissa(w))

\* math_errf.c: the error-path results
math_divzerof(sign) == MkFloat(IF sign # 0 THEN 1 ELSE 0, 255, 0)
math_oflowf(sign) == MkFloat(IF sign # 0 THEN 1 ELSE 0, 255, 0)
math_uflowf(sign) == MkFloat(IF sign # 0 THEN 1 ELSE 0, 0, 0)
math_may_uflowf(sign) == MkFloat(IF sign # 0 THEN 1 ELSE 0, 0, 1)
math_invalidf(w) == W(32704, 0)

-----------------------------------------------------------------------------
(* binary64 patterns [s, hi, mid, lo]: sign, bits 62..47, 46..24, 23..0.   *)

D(s, hi, mid, lo) == [s |-> s, hi |-> hi, mid |-> mid, lo |-> lo]

\* asuint64 (d) >> 47
Top17(d) == d.s * 65536 + d.hi

DIsZero(d) == d.hi = 0 /\ d.mid = 0 /\ d.lo = 0

MagLt(a, b) ==
  \/ a.hi < b.hi
  \/ a.hi = b.hi /\ a.mid < b.mid
  \/ a.hi = b.hi /\ a.mid = b.mid /\ a.lo < b.lo

\* a < b on finite doubles
DLt(a, b) ==
  IF DIsZero(a) /\ DIsZero(b) THEN FALSE
  ELSE IF a.s # b.s THEN a.s = 1
  ELSE IF a.s = 0 THEN MagLt(a, b)
  ELSE MagLt(b, a)

DGt(a, b) == DLt(b, a)

DLe(a, b) == DLt(a, b) \/ a = b \/ (DIsZero(a) /\ DIsZero(b))

\* the double j units in the last place away from d (in magnitude)
Ulps(d, j) ==
  LET lo == d.lo + j
      mid == d.mid + (lo \div 16777216)
  IN  D(d.s, d.hi + (mid \div 8388608), mid % 8388608, lo % 16777216)

\* 126.0 * POWF_SCALE
D126 == D(0, 32959 + 32 * POWF_SCALE_BITS, 0, 0)
\* 0x1.fffffffd1d571p+6 * POWF_SCALE
OflowThreshold == D(0, 32959 + 32 * POWF_SCALE_BITS, 8388607, 13751665)
\* -150.0 * POWF_SCALE
UflowThreshold == D(1, 32965 + 32 * POWF_SCALE_BITS, 4194304, 0)
\* -149.0 * POWF_SCALE
MayUflowThreshold == D(1, 32965 + 32 * POWF_SCALE_BITS, 2097152, 0)

-----------------------------------------------------------------------------
(* log2_inline: the range reduction x = 2^k z.  The table and polynomial   *)
(* data (__powf_log2_data) are not part of e_powf.c; the value of the      *)
(* polynomial is not computed here.                                        *)

log2_inline(w) ==
  LET tmp == Sub32(w, OFF)
      top == And32(tmp, TopMask)
  IN  [tmp |-> tmp, top |-> top,
       i |-> Shr32(tmp, 23 - POWF_LOG2_TABLE_BITS)[2] % N_log2,
       iz |-> Sub32(w, top),
       k |-> AShr32(top, 23 - POWF_SCALE_BITS)]

-----------------------------------------------------------------------------
(* exp2_inline, the branch without TOINT_INTRINSICS.                       *)

\* The integer k with (double) (xd + SHIFT) = SHIFT + k/N, SHIFT = 0x1.8p+52/N:
\* xd * N rounded to nearest, ties to even.  Defined for |xd| < 2^24.
RoundToGrid(xd) ==
  LET e == xd.hi \div 32
      sh == (1023 + 52 - EXP2F_TABLE_BITS) - e
      c == (32 + (xd.hi % 32)) * 8388608 + xd.mid
      n == sh - 24
      ip == c \div Pow2(n)
      rem == c % Pow2(n)
      half == Pow2(n - 1)
      mag == IF e = 0 \/ sh > 53 THEN 0
             ELSE IF rem > half \/ (rem = half /\ xd.lo # 0) THEN ip + 1
             ELSE IF rem = half /\ ip % 2 = 1 THEN ip + 1
             ELSE ip
  IN  IF xd.s = 1 THEN -mag ELSE mag

\* ki = asuint64 (kd): its low 17 bits, all that ki % N and ski << 47 keep
KiBits(xd) == RoundToGrid(xd) % 131072

\* The sign and exponent field (top 12 bits) of
\* t = T[ki % N] + (ski << (52 - EXP2F_TABLE_BITS)), where
\* T[j] = asuint64 (2^(j/N)) - (j << (52 - EXP2F_TABLE_BITS))
ScaleTop(kbits, bias) ==
  LET ski == (kbits + bias) % 131072
  IN  (1023 + (ski \div N_exp2)) % 4096

exp2_inline(xd, bias) ==
  LET kbits == KiBits(xd)
      top == ScaleTop(kbits, bias)
  IN  [ki |-> kbits, top |-> top, sign |-> top \div 2048]

-----------------------------------------------------------------------------
(* Bounds and the operands drawn from them.                                *)

\* mantissas 0 .. MantSpread are drawn next to the distinguished ones
MantSpread == 1
\* y * logx is drawn within YSpread units in the last place of each threshold
YSpread == 1

Floats(exps, mants) ==
  {MkFloat(s, e, m) : s \in {0, 1}, e \in exps, m \in mants}

\* 0x330000 is the mantissa of OFF, 0x400000 the quiet bit
XMants == (0 .. MantSpread) \cup {3342335, 3342336, 4194304}
YMants == (0 .. MantSpread) \cup {4194304}

XFloats == Floats({0, 1, 126, 127, 128, 255}, XMants)
YFloats == Floats({0, 126, 127, 128, 150, 151, 255}, YMants)

\* every class of exponent field checkint tells apart
CheckintInputs ==
  Floats((0 .. 1) \cup (126 .. 128) \cup (148 .. 152) \cup {254, 255},
         (0 .. MantSpread) \cup {4194304, 8388607})

DNeg(d) == D(1 - d.s, d.hi, d.mid, d.lo)

\* The values y * logx is drawn from.  logx depends on the tables of
\* __powf_log2_data, which e_powf.c does not hold; everything after the
\* product depends on x and y only through ylogx and sign_bias.
YLogxValues ==
  UNION {{Ulps(d, j) : j \in (-YSpread) .. YSpread} :
         d \in {D126, DNeg(D126), OflowThreshold, UflowThreshold,
                MayUflowThreshold}}
  \cup {D(0, 0, 0, 0), D(0, 32736, 0, 0), D(1, 32736, 0, 0),
        D(1, 32752, 0, 0), D(0, 33376, 0, 0), D(1, 33376, 0, 0)}

-----------------------------------------------------------------------------
(* The state: one call of ARM__powf.                                       *)

Exact(w) == [kind |-> "bits", w |-> w]
\* (float) of a double of the given sign whose magnitude is not modelled
Narrowed(sign) == [kind |-> "exp2", w |-> MkFloat(sign, 0, 0)]
NoResult == [kind |-> "none", w |-> Zero32]

Idle ==
  /\ ix = x
  /\ sign_bias = 0
  /\ yint = 0
  /\ i = 0
  /\ iz = Zero32
  /\ k = 0
  /\ ylogx = D(0, 0, 0, 0)
  /\ ki = 0
  /\ ttop = 0
  /\ ret = "none"
  /\ result = NoResult

Init ==
  /\ x \in XFloats
  /\ y \in YFloats
  /\ WANT_ERRNO \in BOOLEAN
  /\ WANT_ERRNO_UFLOW \in BOOLEAN
  /\ pc = "call"
  /\ Idle

Return(name, r) ==
  /\ pc' = "done"
  /\ ret' = name
  /\ result' = r

\* line 156: x < 0x1p-126 or inf or nan, or y is 0 or inf or nan
Unlikely ==
  \/ Ge32(Sub32(x, MinNormal), Sub32(PlusInf, MinNormal))
  \/ zeroinfnan(y)

inputs == <<x, y, WANT_ERRNO, WANT_ERRNO_UFLOW>>
locals == <<ix, sign_bias, yint>>
kernels == <<i, iz, k, ylogx, ki, ttop>>

-----------------------------------------------------------------------------
(* Lines 161-174: y is 0, inf or nan.                                      *)

\* line 164: return issignalingf_inline (x) ? x + y : 1.0f
RetYZero ==
  /\ pc = "call" /\ Unlikely /\ zeroinfnan(y)
  /\ Twice(y) = Zero32
  /\ \E r \in (IF issignalingf_inline(x) THEN FAddNaN(x, y) ELSE {PlusOne}) :
       Return("y_zero", Exact(r))
  /\ UNCHANGED <<inputs, locals, kernels>>

\* line 166: return issignalingf_inline (y) ? x + y : 1.0f
RetXOne ==
  /\ pc = "call" /\ Unlikely /\ zeroinfnan(y)
  /\ Twice(y) # Zero32
  /\ x = PlusOne
  /\ \E r \in (IF issignalingf_inline(y) THEN FAddNaN(x, y) ELSE {PlusOne}) :
       Return("x_one", Exact(r))
  /\ UNCHANGED <<inputs, locals, kernels>>

\* only x tested for NaN
NaNOperand_OnlyX == Gt32(Twice(x), Twice(PlusInf))

NaNOperand == Gt32(Twice(x), Twice(PlusInf)) \/ Gt32(Twice(y), Twice(PlusInf))

\* line 168: return x + y
RetNaNSum ==
  /\ pc = "call" /\ Unlikely /\ zeroinfnan(y)
  /\ Twice(y) # Zero32 /\ x # PlusOne
  /\ NaNOperand
  /\ \E r \in FAddNaN(x, y) : Return("nan_sum", Exact(r))
  /\ UNCHANGED <<inputs, locals, kernels>>

\* line 170: return 1.0f
RetAbsOne ==
  /\ pc = "call" /\ Unlikely /\ zeroinfnan(y)
  /\ Twice(y) # Zero32 /\ x # PlusOne /\ ~NaNOperand
  /\ Twice(x) = Twice(PlusOne)
  /\ Return("abs_one", Exact(PlusOne))
  /\ UNCHANGED <<inputs, locals, kernels>>

\* the comparison on ix instead of 2 * ix, which keeps the sign bit of x
ShrinksToZero_Signed ==
  Lt32(x, PlusOne) <=> (And32(y, SignMask) = Zero32)

\* line 171: (2 * ix < 2 * 0x3f800000) == !(iy & 0x80000000)
ShrinksToZero ==
  Lt32(Twice(x), Twice(PlusOne)) <=> (And32(y, SignMask) = Zero32)

\* line 172: return 0.0f
RetInfYZero ==
  /\ pc = "call" /\ Unlikely /\ zeroinfnan(y)
  /\ Twice(y) # Zero32 /\ x # PlusOne /\ ~NaNOperand
  /\ Twice(x) # Twice(PlusOne)
  /\ ShrinksToZero
  /\ Return("inf_y_zero", Exact(PlusZero))
  /\ UNCHANGED <<inputs, locals, kernels>>

\* line 173: return y * y
RetInfYInf ==
  /\ pc = "call" /\ Unlikely /\ zeroinfnan(y)
  /\ Twice(y) # Zero32 /\ x # PlusOne /\ ~NaNOperand
  /\ Twice(x) # Twice(PlusOne)
  /\ ~ShrinksToZero
  /\ Return("inf_y_inf", Exact(FSquare(y)))
  /\ UNCHANGED <<inputs, locals, kernels>>

-----------------------------------------------------------------------------
(* Lines 175-188: x is 0, inf or nan, y is finite and nonzero.             *)

\* any integer y taken as odd
OddNegative_AnyInteger == And32(x, SignMask) # Zero32 /\ checkint(y) # 0

\* line 178: ix & 0x80000000 && checkint (iy) == 1
OddNegative == And32(x, SignMask) # Zero32 /\ checkint(y) = 1

\* lines 177-182
X2 == IF OddNegative THEN Negate(FSquare(x)) ELSE FSquare(x)

\* ix == 0 instead of 2 * ix == 0, which misses -0
Pole_PositiveZeroOnly ==
  WANT_ERRNO /\ x = Zero32 /\ And32(y, SignMask) # Zero32

\* line 184: 2 * ix == 0 && iy & 0x80000000, under WANT_ERRNO
Pole == WANT_ERRNO /\ Twice(x) = Zero32 /\ And32(y, SignMask) # Zero32

\* line 185: return __math_divzerof (sign_bias)
RetDivzero ==
  /\ pc = "call" /\ Unlikely /\ ~zeroinfnan(y) /\ zeroinfnan(x)
  /\ Pole
  /\ sign_bias' = (IF OddNegative THEN 1 ELSE 0)
  /\ Return("divzero", Exact(math_divzerof(sign_bias')))
  /\ UNCHANGED <<inputs, ix, yint, kernels>>

\* line 187: return 1 / x2
RetRecip ==
  /\ pc = "call" /\ Unlikely /\ ~zeroinfnan(y) /\ zeroinfnan(x)
  /\ ~Pole
  /\ And32(y, SignMask) # Zero32
  /\ sign_bias' = (IF OddNegative THEN 1 ELSE 0)
  /\ Return("recip", Exact(FRecip(X2)))
  /\ UNCHANGED <<inputs, ix, yint, kernels>>

\* line 187: return x2
RetX2 ==
  /\ pc = "call" /\ Unlikely /\ ~zeroinfnan(y) /\ zeroinfnan(x)
  /\ ~Pole
  /\ And32(y, SignMask) = Zero32
  /\ sign_bias' = (IF OddNegative THEN 1 ELSE 0)
  /\ Return("x2", Exact(X2))
  /\ UNCHANGED <<inputs, ix, yint, kernels>>

-----------------------------------------------------------------------------
(* Lines 189-207: x and y are nonzero finite.                              *)

Negative == And32(x, SignMask) # Zero32

\* line 195: return __math_invalidf (x)
RetInvalid ==
  /\ pc = "call" /\ Unlikely /\ ~zeroinfnan(y) /\ ~zeroinfnan(x)
  /\ Negative
  /\ yint' = checkint(y)
  /\ yint' = 0
  /\ Return("invalid", Exact(math_invalidf(x)))
  /\ UNCHANGED <<inputs, ix, sign_bias, kernels>>

\* the normalization without ix -= 23 << 23
Normalized_NoRebias ==
  LET mag == IF And32(x, SignMask) # Zero32 THEN And32(x, AbsMask) ELSE x
  IN  IF Lt32(mag, MinNormal) THEN And32(FMul2p23(x), AbsMask) ELSE mag

\* lines 198, 200-206: the magnitude, a subnormal one normalized
Normalized ==
  LET mag == IF Negative THEN And32(x, AbsMask) ELSE x
  IN  IF Lt32(mag, MinNormal)
      THEN Sub32(And32(FMul2p23(x), AbsMask), W(23 * 128, 0))
      ELSE mag

\* lines 190-206, falling through to line 208
Prepare ==
  /\ pc = "call" /\ Unlikely /\ ~zeroinfnan(y) /\ ~zeroinfnan(x)
  /\ yint' = (IF Negative THEN checkint(y) ELSE yint)
  /\ Negative => yint' # 0
  /\ sign_bias' = (IF Negative /\ yint' = 1 THEN SIGN_BIAS ELSE sign_bias)
  /\ ix' = Normalized
  /\ pc' = "log2"
  /\ UNCHANGED <<inputs, kernels, ret, result>>

\* line 156 not taken: x is a positive normal, y finite and nonzero
Likely ==
  /\ pc = "call" /\ ~Unlikely
  /\ pc' = "log2"
  /\ UNCHANGED <<inputs, locals, kernels, ret, result>>

-----------------------------------------------------------------------------
(* Lines 208-224: the common path.                                         *)

\* line 208: double_t logx = log2_inline (ix)
Log2 ==
  /\ pc = "log2"
  /\ LET r == log2_inline(ix)
     IN  i' = r.i /\ iz' = r.iz /\ k' = r.k
  /\ pc' = "mul"
  /\ UNCHANGED <<inputs, locals, ylogx, ki, ttop, ret, result>>

\* the gate with > in place of >=
Gate_Strict(d) == (Top17(d) % 65536) > Top17(D126)

\* line 210: (asuint64 (ylogx) >> 47 & 0xffff) >= asuint64 (126.0 * POWF_SCALE) >> 47
Gate(d) == (Top17(d) % 65536) >= Top17(D126)

\* line 215
Overflows(d) == Gate(d) /\ DGt(d, OflowThreshold)
\* line 217
Underflows(d) == Gate(d) /\ ~Overflows(d) /\ DLe(d, UflowThreshold)
\* lines 219-222
MayUnderflow(d) ==
  /\ WANT_ERRNO_UFLOW
  /\ Gate(d) /\ ~Overflows(d) /\ ~Underflows(d)
  /\ DLt(d, MayUflowThreshold)

\* lines 209, 216: return __math_oflowf (sign_bias)
RetOflow ==
  /\ pc = "mul"
  /\ \E d \in YLogxValues :
       /\ ylogx' = d
       /\ Overflows(d)
  /\ Return("oflow", Exact(math_oflowf(sign_bias)))
  /\ UNCHANGED <<inputs, locals, i, iz, k, ki, ttop>>

\* lines 209, 218: return __math_uflowf (sign_bias)
RetUflow ==
  /\ pc = "mul"
  /\ \E d \in YLogxValues :
       /\ ylogx' = d
       /\ Underflows(d)
  /\ Return("uflow", Exact(math_uflowf(sign_bias)))
  /\ UNCHANGED <<inputs, locals, i, iz, k, ki, ttop>>

\* lines 209, 221: return __math_may_uflowf (sign_bias)
RetMayUflow ==
  /\ pc = "mul"
  /\ \E d \in YLogxValues :
       /\ ylogx' = d
       /\ MayUnderflow(d)
  /\ Return("may_uflow", Exact(math_may_uflowf(sign_bias)))
  /\ UNCHANGED <<inputs, locals, i, iz, k, ki, ttop>>

\* lines 209, 224: return (float) exp2_inline (ylogx, sign_bias)
RetExp2 ==
  /\ pc = "mul"
  /\ \E d \in YLogxValues :
       /\ ylogx' = d
       /\ ~Overflows(d) /\ ~Underflows(d) /\ ~MayUnderflow(d)
       /\ LET s == exp2_inline(d, sign_bias)
          IN  /\ ki' = s.ki
              /\ ttop' = s.top
              /\ Return("exp2", Narrowed(s.sign))
  /\ UNCHANGED <<inputs, locals, i, iz, k>>

Next ==
  \/ RetYZero \/ RetXOne \/ RetNaNSum \/ RetAbsOne \/ RetInfYZero
  \/ RetInfYInf
  \/ RetDivzero \/ RetRecip \/ RetX2
  \/ RetInvalid \/ Prepare \/ Likely
  \/ Log2
  \/ RetOflow \/ RetUflow \/ RetMayUflow \/ RetExp2

Spec == Init /\ [][Next]_vars

-----------------------------------------------------------------------------
(* checkint on its own: every pattern of CheckintInputs is classified.     *)

InitCheckint ==
  /\ x = PlusZero
  /\ y \in CheckintInputs
  /\ WANT_ERRNO = FALSE
  /\ WANT_ERRNO_UFLOW = FALSE
  /\ pc = "checkint"
  /\ Idle

CheckintCall ==
  /\ pc = "checkint"
  /\ yint' = checkint(y)
  /\ pc' = "checked"
  /\ UNCHANGED <<inputs, ix, sign_bias, kernels, ret, result>>

NextCheckint == CheckintCall

SpecCheckint == InitCheckint /\ [][NextCheckint]_vars

-----------------------------------------------------------------------------
(* The values the patterns encode, by arithmetic on the fields.            *)

\* the significand of a normal value as an integer: value = Sig * 2^(e - 150)
Sig(w) == 8388608 + Mantissa(w)

FiniteNonzero(w) == IsFinite(w) /\ ~IsZero(w)

\* the value is an integer (zero included; infinities and NaNs are not)
ValueIsInteger(w) ==
  /\ IsFinite(w)
  /\ \/ IsZero(w)
     \/ ExpField(w) >= 150
     \/ ExpField(w) >= 127 /\ Sig(w) % Pow2(150 - ExpField(w)) = 0

\* the value is an odd integer
ValueIsOdd(w) ==
  /\ ValueIsInteger(w)
  /\ ExpField(w) >= 127 /\ ExpField(w) <= 150
  /\ (Sig(w) \div Pow2(150 - ExpField(w))) % 2 = 1

\* 0 not an integer, 1 odd integer, 2 even integer
ValueClass(w) ==
  IF ~ValueIsInteger(w) THEN 0 ELSE IF ValueIsOdd(w) THEN 1 ELSE 2

\* |x| < 1, |x| = 1, |x| > 1 for a non-NaN x
AbsBelowOne(w) == ExpField(w) < 127
AbsIsOne(w) == ExpField(w) = 127 /\ Mantissa(w) = 0
AbsAboveOne(w) == ~AbsBelowOne(w) /\ ~AbsIsOne(w)

SignalingNaN(w) == IsNaN(w) /\ Mantissa(w) < 4194304
QuietNaN(w) == IsNaN(w) /\ Mantissa(w) >= 4194304

CommonExits == {"exp2", "oflow", "uflow", "may_uflow"}

Done == pc = "done"

-----------------------------------------------------------------------------
(* Claims.                                                                 *)

\* C1: for a finite, nonzero, negative x and a finite, nonzero y, a y that is
\* not an integer ends in the invalid-domain return with a NaN; an integer y
\* continues on |x| and every exit of the common path returns a result whose
\* sign bit is set exactly when y is an odd integer.
C1_NegativeBase ==
  (SignBit(x) = 1 /\ FiniteNonzero(x) /\ FiniteNonzero(y)) =>
    /\ (pc \in {"log2", "mul"} \/ (Done /\ ret \in CommonExits)) =>
         /\ ValueIsInteger(y)
         /\ ~IsSubnormal(x) => ix = MkFloat(0, ExpField(x), Mantissa(x))
    /\ Done =>
         IF ~ValueIsInteger(y)
         THEN ret = "invalid" /\ IsNaN(result.w)
         ELSE /\ ret \in CommonExits
              /\ SignBit(result.w) = 1 <=> ValueIsOdd(y)

C1_Witness ==
  /\ Done /\ ret = "exp2"
  /\ SignBit(x) = 1 /\ FiniteNonzero(x)
  /\ ValueIsOdd(y)
  /\ SignBit(result.w) = 1

\* C2: for x = +0, -0, +inf or -inf and a finite, nonzero y, the result is a
\* zero when (x is zero and y > 0) or (x is infinite and y < 0), an infinity
\* when (x is zero and y < 0) or (x is infinite and y > 0), and negative
\* exactly when x has its sign bit set and y is an odd integer.
C2_ZeroInfBase ==
  (Done /\ (IsZero(x) \/ IsInf(x)) /\ FiniteNonzero(y)) =>
    /\ result.kind = "bits"
    /\ IsZero(result.w) <=> ((IsZero(x) /\ SignBit(y) = 0)
                             \/ (IsInf(x) /\ SignBit(y) = 1))
    /\ IsInf(result.w) <=> ((IsZero(x) /\ SignBit(y) = 1)
                            \/ (IsInf(x) /\ SignBit(y) = 0))
    /\ SignBit(result.w) = 1 <=> (SignBit(x) = 1 /\ ValueIsOdd(y))

C2_Witness ==
  /\ Done
  /\ x = MkFloat(1, 0, 0)
  /\ y = MkFloat(1, 128, 4194304)
  /\ result.w = MkFloat(1, 255, 0)

\* C3: for y = +inf or -inf and a non-NaN x of either sign, the result is 1
\* when |x| = 1, +0 when (|x| < 1 and y = +inf) or (|x| > 1 and y = -inf),
\* and +inf otherwise.
C3_InfiniteExponent ==
  (Done /\ IsInf(y) /\ ~IsNaN(x)) =>
    /\ result.kind = "bits"
    /\ result.w =
         IF AbsIsOne(x) THEN PlusOne
         ELSE IF (AbsBelowOne(x) /\ SignBit(y) = 0)
                 \/ (AbsAboveOne(x) /\ SignBit(y) = 1) THEN PlusZero
         ELSE PlusInf

C3_Witness ==
  /\ Done
  /\ SignBit(x) = 1 /\ AbsBelowOne(x) /\ ~IsZero(x)
  /\ y = MkFloat(1, 255, 0)
  /\ result.w = PlusInf

\* C4: when y is +0 or -0 the y-is-zero return is taken whatever x is; the
\* result is 1 for every x that is not a signaling NaN, and the quieted sum
\* x + y for a signaling NaN x.
C4_ZeroExponent ==
  (Done /\ IsZero(y)) =>
    /\ ret = "y_zero"
    /\ IF SignalingNaN(x) THEN result.w = Quiet(x) /\ QuietNaN(result.w)
                          ELSE result.w = PlusOne

C4_Witness ==
  /\ Done
  /\ QuietNaN(x)
  /\ y = MkFloat(1, 0, 0)
  /\ result.w = PlusOne

\* C5: a call with a NaN operand returns a quiet NaN made by x + y, or by
\* x * x when only x is a NaN and y is finite and nonzero; the only exceptions
\* return 1: y zero with a quiet NaN x, and x = +1 with a quiet NaN y.
C5_NaNPropagation ==
  (Done /\ (IsNaN(x) \/ IsNaN(y))) =>
    IF (IsZero(y) /\ QuietNaN(x)) \/ (x = PlusOne /\ QuietNaN(y))
    THEN result.w = PlusOne
    ELSE /\ result.kind = "bits"
         /\ QuietNaN(result.w)
         /\ IF IsNaN(x) /\ FiniteNonzero(y)
            THEN ret \in {"recip", "x2"}
            ELSE ret \in {"y_zero", "x_one", "nan_sum"}

C5_Witness ==
  /\ Done
  /\ IsNaN(y) /\ ~IsNaN(x) /\ x # PlusOne
  /\ ret = "nan_sum"
  /\ QuietNaN(result.w)

\* C6: on the common path every ylogx above 0x1.fffffffd1d571p+6 * POWF_SCALE
\* returns the infinity signed by sign_bias, every ylogx at or below
\* -150 * POWF_SCALE returns the zero signed by sign_bias, and exp2_inline is
\* reached only with -150 * POWF_SCALE < ylogx <= 0x1.fffffffd1d571p+6 *
\* POWF_SCALE, where the scale factor it builds is a normal double.
C6_RangeGate ==
  (Done /\ ret \in CommonExits) =>
    /\ DGt(ylogx, OflowThreshold) =>
         /\ ret = "oflow"
         /\ result.w = MkFloat(IF sign_bias # 0 THEN 1 ELSE 0, 255, 0)
    /\ DLe(ylogx, UflowThreshold) =>
         /\ ret = "uflow"
         /\ result.w = MkFloat(IF sign_bias # 0 THEN 1 ELSE 0, 0, 0)
    /\ ret = "exp2" =>
         /\ DLt(UflowThreshold, ylogx)
         /\ DLe(ylogx, OflowThreshold)
         /\ ttop % 2048 \in 1 .. 2046

C6_Witness ==
  /\ Done /\ ret = "uflow"
  /\ ylogx = UflowThreshold
  /\ sign_bias # 0
  /\ result.w = MkFloat(1, 0, 0)

\* C7 as stated: with WANT_ERRNO, every call with a zero x and a negative y
\* (sign bit set, not NaN, not -0) returns an infinity through
\* __math_divzerof.
C7_PoleAnyNegative ==
  (Done /\ WANT_ERRNO /\ IsZero(x)
        /\ SignBit(y) = 1 /\ ~IsNaN(y) /\ ~IsZero(y)) =>
    /\ IsInf(result.w)
    /\ ret = "divzero"

\* C7 amended: with WANT_ERRNO, every call with a zero x and a finite,
\* nonzero, negative y returns through __math_divzerof the infinity that is
\* negative exactly when x is -0 and y is an odd integer.
C7_PoleFiniteNegative ==
  (Done /\ WANT_ERRNO /\ IsZero(x) /\ SignBit(y) = 1 /\ FiniteNonzero(y)) =>
    /\ ret = "divzero"
    /\ IsInf(result.w)
    /\ SignBit(result.w) = 1 <=> (SignBit(x) = 1 /\ ValueIsOdd(y))

C7_Witness ==
  /\ Done /\ WANT_ERRNO
  /\ x = MkFloat(1, 0, 0)
  /\ y = MkFloat(1, 128, 4194304)
  /\ ret = "divzero"
  /\ result.w = MkFloat(1, 255, 0)

\* C9: for every ix that reaches log2_inline the table index is in 0..N-1,
\* the reduced pattern iz is in [OFF, OFF + 2^23), and |x| = 2^(k/POWF_SCALE)
\* * z exactly; k/POWF_SCALE is -149 for the smallest subnormal and -126 for
\* the smallest normal.
C9_RangeReduction ==
  (pc = "mul" \/ (Done /\ ret \in CommonExits)) =>
    LET scale == Pow2(POWF_SCALE_BITS)
        e == k \div scale
        shift == 1 - ExpField(iz) - e
    IN  /\ i \in 0 .. (N_log2 - 1)
        /\ Ge32(iz, OFF) /\ Lt32(iz, Add32(OFF, W(128, 0)))
        /\ k % scale = 0
        /\ IF IsSubnormal(x)
           THEN /\ shift \in 1 .. 23
                /\ Sig(iz) % Pow2(shift) = 0
                /\ Sig(iz) \div Pow2(shift) = Mantissa(x)
           ELSE /\ Mantissa(iz) = Mantissa(x)
                /\ ExpField(iz) + e = ExpField(x)
        /\ (ExpField(x) = 0 /\ Mantissa(x) = 1) => e = -149
        /\ (ExpField(x) = 1 /\ Mantissa(x) = 0) => e = -126

C9_Witness ==
  /\ pc = "mul"
  /\ x = MkFloat(1, 0, 1)
  /\ k = -149 * Pow2(POWF_SCALE_BITS)
  /\ iz = PlusOne

====
